---- MODULE Spec2Model ----
(***************************************************************************)
(* The user CRUD service of app/routes.py: six Flask handlers over one     *)
(* "users" table.  The table is a set of rows, a handler is a pure         *)
(* function from (table, id counter, request) to (table, id counter,       *)
(* response), and an action applies one handler to one request.            *)
(*                                                                         *)
(* Spec      requests are served one after the other, each handler whole.  *)
(* ConcSpec  requests are served by two threads, each with its own         *)
(*           database session; a handler is split at its database round    *)
(*           trips, which interleave freely.                               *)
(***************************************************************************)
EXTENDS Naturals, Sequences, FiniteSets

\* Upper end of the ids the table's auto-increment counter hands out.
MaxId == 3

\* A key that the JSON body does not have, and a key whose value is JSON null.
Missing == "<missing>"
Null == "<null>"

Usernames == {"alice", "bob"}
Emails == {"a@x.io", "b@x.io"}
Fields == {"username", "email"}

\* request.json: every combination of absent, null and string-valued fields.
Payloads == [username : Usernames \cup {Missing, Null},
             email : Emails \cup {Missing, Null}]
NoPayload == [username |-> Missing, email |-> Missing]

\* The <int:user_id> path parameter.
UserIds == 1 .. MaxId

\* The request threads of ConcSpec, and the bodies they are sent: two valid
\* ones and one that fails validation.
Workers == {"t1", "t2"}
ConcPayloads == {[username |-> "alice", email |-> "a@x.io"],
                 [username |-> "bob", email |-> "b@x.io"],
                 [username |-> Missing, email |-> Null]}

VARIABLES
    rows,      \* the users table: a set of [id, username, email]
    nextId,    \* the table's auto-increment counter
    last,      \* the most recently completed request and its response
    written,   \* per id, the (username, email) last written by a 201 or 200
    inflight   \* ConcSpec: per worker, the request it is in the middle of

vars == <<rows, nextId, last, written, inflight>>

----------------------------------------------------------------------------
\* Rows, bodies and responses.

NoUser == [id |-> 0, username |-> Missing, email |-> Missing]
NoData == [username |-> Missing, email |-> Missing]

Ids(rs) == {r.id : r \in rs}

\* User.query.get(id): the row with that primary key, if any.
Found(rs, id) == \E r \in rs : r.id = id
Get(rs, id) == CHOOSE r \in rs : r.id = id

\* UserSchema.load: the fields in error (absent or null); empty when valid.
LoadErrors(p) == {f \in Fields : p[f] \in {Missing, Null}}

\* UserSchema.load on a valid payload: the (username, email) pair.
Load(p) == [username |-> p.username, email |-> p.email]

\* UserSchema.dump: the JSON object of one entity.
Dump(u) == [id |-> u.id, username |-> u.username, email |-> u.email]

\* UserSchema(many=True).dump over User.query.all(), in primary-key order.
RECURSIVE DumpMany(_)
DumpMany(rs) ==
    IF rs = {} THEN <<>>
    ELSE LET r == CHOOSE x \in rs : \A y \in rs : x.id <= y.id
         IN <<Dump(r)>> \o DumpMany(rs \ {r})

NoHealth == [status |-> Missing, service |-> Missing]

Body(kind, user, users, errors, health) ==
    [kind |-> kind, user |-> user, users |-> users, errors |-> errors,
     health |-> health]

HealthBody ==
    Body("health", NoUser, <<>>, {},
         [status |-> "healthy", service |-> "microservice-app"])
UserBody(u) == Body("user", Dump(u), <<>>, {}, NoHealth)
ListBody(rs) == Body("list", NoUser, DumpMany(rs), {}, NoHealth)
ErrorsBody(errs) == Body("errors", NoUser, <<>>, errs, NoHealth)
NotFoundBody == Body("not_found", NoUser, <<>>, {}, NoHealth)
EmptyBody == Body("empty", NoUser, <<>>, {}, NoHealth)
ServerErrorBody == Body("server_error", NoUser, <<>>, {}, NoHealth)

\* What a handler leaves behind: the table, the counter and the response.
Result(rs, nid, status, body) ==
    [rows |-> rs, nextId |-> nid, status |-> status, body |-> body]

----------------------------------------------------------------------------
\* The database statements the session issues on commit.

\* User(**user_data) as the commit leaves it: the constructor is given no id,
\* and the INSERT fills it in with the counter's value.
\* Variant: the handler numbers the row itself, by counting the table.
NewUserCountId(rs, nid, data) ==
    [id |-> Cardinality(rs) + 1,
     username |-> data.username, email |-> data.email]

NewUser(rs, nid, data) ==
    [id |-> nid, username |-> data.username, email |-> data.email]

\* INSERT INTO users.
Insert(rs, user) == rs \cup {user}

\* The attributes of the loaded entity that an assignment changed.
Changed(user, data) == {f \in Fields : data[f] # user[f]}

\* UPDATE ... WHERE id = user.id, setting the attributes whose assigned value
\* differs from the value the session loaded.
Update(rs, user, data) ==
    {IF r.id # user.id THEN r
     ELSE [id |-> r.id,
           username |-> IF "username" \in Changed(user, data)
                        THEN data.username ELSE r.username,
           email |-> IF "email" \in Changed(user, data)
                     THEN data.email ELSE r.email] : r \in rs}

\* DELETE ... WHERE id = user.id.
Delete(rs, user) == {r \in rs : r.id # user.id}

----------------------------------------------------------------------------
\* The handlers, each as one function of the table and the request.

health_check(rs, nid) == Result(rs, nid, 200, HealthBody)

\* Variant: the query is cut to its first row.
get_users_first_only(rs, nid) ==
    LET r == CHOOSE x \in rs : \A y \in rs : x.id <= y.id
    IN Result(rs, nid, 200, ListBody(IF rs = {} THEN {} ELSE {r}))

get_users(rs, nid) == Result(rs, nid, 200, ListBody(rs))

\* Variant: the entity is never added to the session.
create_user_no_add(rs, nid, p) ==
    IF LoadErrors(p) # {}
    THEN Result(rs, nid, 400, ErrorsBody(LoadErrors(p)))
    ELSE Result(rs, nid, 201, UserBody(NewUser(rs, 0, Load(p))))

\* Variant: the validation failure does not end the handler.
create_user_no_return(rs, nid, p) ==
    LET user == NewUser(rs, nid, Load(p))
        rs2 == Insert(rs, user)
    IN IF LoadErrors(p) # {}
       THEN Result(rs2, nid + 1, 400, ErrorsBody(LoadErrors(p)))
       ELSE Result(rs2, nid + 1, 201, UserBody(Get(rs2, user.id)))

create_user(rs, nid, p) ==
    IF LoadErrors(p) # {}
    THEN Result(rs, nid, 400, ErrorsBody(LoadErrors(p)))
    ELSE LET user == NewUser(rs, nid, Load(p))
             rs2 == Insert(rs, user)
         IN Result(rs2, nid + 1, 201, UserBody(Get(rs2, user.id)))

\* Variant: the query ignores the id and takes the first row.
get_user_first(rs, nid, id) ==
    IF rs = {}
    THEN Result(rs, nid, 404, NotFoundBody)
    ELSE Result(rs, nid, 200,
                UserBody(CHOOSE x \in rs : \A y \in rs : x.id <= y.id))

get_user(rs, nid, id) ==
    IF ~Found(rs, id)
    THEN Result(rs, nid, 404, NotFoundBody)
    ELSE Result(rs, nid, 200, UserBody(Get(rs, id)))

\* Variant: the email assignment is left out.
update_user_username_only(rs, nid, id, p) ==
    IF ~Found(rs, id)
    THEN Result(rs, nid, 404, NotFoundBody)
    ELSE IF LoadErrors(p) # {}
    THEN Result(rs, nid, 400, ErrorsBody(LoadErrors(p)))
    ELSE LET user == Get(rs, id)
             rs2 == Update(rs, user, [Load(p) EXCEPT !.email = user.email])
         IN Result(rs2, nid, 200, UserBody(Get(rs2, id)))

\* Variant: the body is validated before the row is loaded.
update_user_validate_first(rs, nid, id, p) ==
    IF LoadErrors(p) # {}
    THEN Result(rs, nid, 400, ErrorsBody(LoadErrors(p)))
    ELSE IF ~Found(rs, id)
    THEN Result(rs, nid, 404, NotFoundBody)
    ELSE LET rs2 == Update(rs, Get(rs, id), Load(p))
         IN Result(rs2, nid, 200, UserBody(Get(rs2, id)))

\* Variant: the body is assigned without validation.
update_user_no_validate(rs, nid, id, p) ==
    IF ~Found(rs, id)
    THEN Result(rs, nid, 404, NotFoundBody)
    ELSE LET rs2 == Update(rs, Get(rs, id), Load(p))
         IN Result(rs2, nid, 200, UserBody(Get(rs2, id)))

\* Variant: the fields that are valid are assigned and committed before the
\* validation failure is answered.
update_user_partial(rs, nid, id, p) ==
    IF ~Found(rs, id)
    THEN Result(rs, nid, 404, NotFoundBody)
    ELSE LET user == Get(rs, id)
             data == [f \in Fields |->
                         IF f \in LoadErrors(p) THEN user[f] ELSE p[f]]
             rs2 == Update(rs, user, data)
         IN IF LoadErrors(p) # {}
            THEN Result(rs2, nid, 400, ErrorsBody(LoadErrors(p)))
            ELSE Result(rs2, nid, 200, UserBody(Get(rs2, id)))

update_user(rs, nid, id, p) ==
    IF ~Found(rs, id)
    THEN Result(rs, nid, 404, NotFoundBody)
    ELSE IF LoadErrors(p) # {}
    THEN Result(rs, nid, 400, ErrorsBody(LoadErrors(p)))
    ELSE LET rs2 == Update(rs, Get(rs, id), Load(p))
         IN Result(rs2, nid, 200, UserBody(Get(rs2, id)))

\* Variant: the delete is never committed.
delete_user_no_commit(rs, nid, id) ==
    IF ~Found(rs, id)
    THEN Result(rs, nid, 404, NotFoundBody)
    ELSE Result(rs, nid, 204, EmptyBody)

delete_user(rs, nid, id) ==
    IF ~Found(rs, id)
    THEN Result(rs, nid, 404, NotFoundBody)
    ELSE Result(Delete(rs, Get(rs, id)), nid, 204, EmptyBody)

----------------------------------------------------------------------------
\* Requests served one at a time.

Idle == [pc |-> "idle", id |-> 0, user |-> NoUser, data |-> NoData]

Request(op, id, p, before, res) ==
    [op |-> op, id |-> id, payload |-> p, before |-> before,
     status |-> res.status, body |-> res.body]

\* The ghost record of what each id was last given by a successful write.
Written(w, op, id, p, res) ==
    IF op = "POST" /\ res.status = 201
        THEN [w EXCEPT ![res.body.user.id] = Load(p)]
    ELSE IF op = "PUT" /\ res.status = 200
        THEN [w EXCEPT ![id] = Load(p)]
    ELSE IF op = "DELETE" /\ res.status = 204
        THEN [w EXCEPT ![id] = NoData]
    ELSE w

Serve(op, id, p, res) ==
    /\ rows' = res.rows
    /\ nextId' = res.nextId
    /\ last' = Request(op, id, p, rows, res)
    /\ written' = Written(written, op, id, p, res)
    /\ UNCHANGED inflight

GetHealth == Serve("HEALTH", 0, NoPayload, health_check(rows, nextId))

GetUsers == Serve("LIST", 0, NoPayload, get_users(rows, nextId))

PostUsers ==
    \E p \in Payloads :
        /\ LoadErrors(p) = {} => nextId <= MaxId
        /\ Serve("POST", 0, p, create_user(rows, nextId, p))

GetUser ==
    \E id \in UserIds : Serve("GET", id, NoPayload, get_user(rows, nextId, id))

PutUser ==
    \E id \in UserIds, p \in Payloads :
        Serve("PUT", id, p, update_user(rows, nextId, id, p))

DeleteUser ==
    \E id \in UserIds :
        Serve("DELETE", id, NoPayload, delete_user(rows, nextId, id))

Init ==
    /\ rows = {}
    /\ nextId = 1
    /\ last = Request("NONE", 0, NoPayload, {}, health_check({}, 1))
    /\ written = [i \in 0 .. MaxId |-> NoData]
    /\ inflight = [w \in Workers |-> Idle]

Next ==
    \/ GetHealth
    \/ GetUsers
    \/ PostUsers
    \/ GetUser
    \/ PutUser
    \/ DeleteUser

Spec == Init /\ [][Next]_vars

----------------------------------------------------------------------------
\* Requests served concurrently.  Each thread has its own session: the entity
\* it loaded, the values it assigned, and where in the handler it stands.  A
\* step is one database round trip together with the code up to the next one.

\* An entity after commit, which expires every attribute but the identity.
Expired(user) == [id |-> user.id, username |-> Missing, email |-> Missing]

\* A handler returns.  The request body is a local of the handler that is not
\* read after the commit, and is not kept here.
Complete(w, op, id, status, body) ==
    /\ last' = [op |-> op, id |-> id, payload |-> NoPayload, before |-> rows,
                status |-> status, body |-> body]
    /\ inflight' = [inflight EXCEPT ![w] = Idle]

Continue(w, pc, id, user, data) ==
    /\ inflight' = [inflight EXCEPT
                        ![w] = [pc |-> pc, id |-> id, user |-> user, data |-> data]]
    /\ UNCHANGED last

\* create_user up to and including the commit: validation, then the INSERT.
PostCommit(w) ==
    \E p \in ConcPayloads :
        /\ inflight[w].pc = "idle"
        /\ IF LoadErrors(p) # {}
           THEN /\ Complete(w, "POST", 0, 400, ErrorsBody(LoadErrors(p)))
                /\ UNCHANGED <<rows, nextId, written>>
           ELSE LET user == NewUser(rows, nextId, Load(p))
                IN /\ nextId <= MaxId
                   /\ rows' = Insert(rows, user)
                   /\ nextId' = nextId + 1
                   /\ written' = [written EXCEPT ![user.id] = Load(p)]
                   /\ Continue(w, "post_dump", 0, Expired(user), NoData)

\* create_user's dump: reading the expired entity selects its row again, and
\* fails the request when the row is gone.
PostDump(w) ==
    LET req == inflight[w]
    IN /\ req.pc = "post_dump"
       /\ IF Found(rows, req.user.id)
          THEN Complete(w, "POST", 0, 201,
                        UserBody(Get(rows, req.user.id)))
          ELSE Complete(w, "POST", 0, 500, ServerErrorBody)
       /\ UNCHANGED <<rows, nextId, written>>

\* update_user up to the commit: get_or_404, then validation.
PutLoad(w) ==
    \E id \in UserIds, p \in ConcPayloads :
        /\ inflight[w].pc = "idle"
        /\ IF ~Found(rows, id)
           THEN Complete(w, "PUT", id, 404, NotFoundBody)
           ELSE IF LoadErrors(p) # {}
           THEN Complete(w, "PUT", id, 400, ErrorsBody(LoadErrors(p)))
           ELSE Continue(w, "put_commit", id, Get(rows, id), Load(p))
        /\ UNCHANGED <<rows, nextId, written>>

\* update_user's commit: no statement when no attribute changed, otherwise
\* the UPDATE, which fails the request when it matches no row.
PutCommit(w) ==
    LET req == inflight[w]
    IN /\ req.pc = "put_commit"
       /\ IF Changed(req.user, req.data) = {}
          THEN /\ Continue(w, "put_dump", req.id, Expired(req.user), NoData)
               /\ UNCHANGED <<rows, written>>
          ELSE IF ~Found(rows, req.user.id)
          THEN /\ Complete(w, "PUT", req.id, 500, ServerErrorBody)
               /\ UNCHANGED <<rows, written>>
          ELSE /\ rows' = Update(rows, req.user, req.data)
               /\ written' = [written EXCEPT ![req.user.id] = req.data]
               /\ Continue(w, "put_dump", req.id, Expired(req.user), NoData)
       /\ UNCHANGED nextId

\* update_user's dump, which selects the row again as create_user's does.
PutDump(w) ==
    LET req == inflight[w]
    IN /\ req.pc = "put_dump"
       /\ IF Found(rows, req.user.id)
          THEN Complete(w, "PUT", req.id, 200,
                        UserBody(Get(rows, req.user.id)))
          ELSE Complete(w, "PUT", req.id, 500, ServerErrorBody)
       /\ UNCHANGED <<rows, nextId, written>>

\* delete_user up to the commit: get_or_404.  The handler reads no attribute
\* of the entity but its identity.
DeleteLoad(w) ==
    \E id \in UserIds :
        /\ inflight[w].pc = "idle"
        /\ IF ~Found(rows, id)
           THEN Complete(w, "DELETE", id, 404, NotFoundBody)
           ELSE Continue(w, "delete_commit", id, Expired(Get(rows, id)), NoData)
        /\ UNCHANGED <<rows, nextId, written>>

\* delete_user's commit: the DELETE, which may match no row any more.
DeleteCommit(w) ==
    LET req == inflight[w]
    IN /\ req.pc = "delete_commit"
       /\ rows' = Delete(rows, req.user)
       /\ written' = [written EXCEPT ![req.user.id] = NoData]
       /\ Complete(w, "DELETE", req.id, 204, EmptyBody)
       /\ UNCHANGED nextId

\* The three read-only handlers make one round trip and hold no session state.
ConcNext ==
    \/ GetHealth
    \/ GetUsers
    \/ GetUser
    \/ \E w \in Workers : PostCommit(w)
    \/ \E w \in Workers : PostDump(w)
    \/ \E w \in Workers : PutLoad(w)
    \/ \E w \in Workers : PutCommit(w)
    \/ \E w \in Workers : PutDump(w)
    \/ \E w \in Workers : DeleteLoad(w)
    \/ \E w \in Workers : DeleteCommit(w)

ConcSpec == Init /\ [][ConcNext]_vars

----------------------------------------------------------------------------
\* Properties.  `last` holds the request just served, the table it found
\* (before) and its response; `rows` is the table it left.

Valid(p) == LoadErrors(p) = {}

Row(id, p) == [id |-> id, username |-> p.username, email |-> p.email]

\* C1: a POST with a valid payload answers 201 with the submitted username
\* and email under an id that no row had before, and the table afterwards is
\* the table before plus exactly that row.
C1_CreateValid ==
    (last.op = "POST" /\ Valid(last.payload)) =>
        /\ last.status = 201
        /\ last.body.kind = "user"
        /\ last.body.user.username = last.payload.username
        /\ last.body.user.email = last.payload.email
        /\ last.body.user.id \notin Ids(last.before)
        /\ last.body.user \notin last.before
        /\ rows = last.before \cup {last.body.user}

C1_Witness ==
    /\ last.op = "POST"
    /\ last.status = 201
    /\ Cardinality(last.before) = 2
    /\ Cardinality(rows) = 3

\* C2: a POST whose payload lacks username or email answers 400 with an
\* error map that names every missing field, and leaves the table as it was.
C2_CreateInvalid ==
    (last.op = "POST" /\ \E f \in Fields : last.payload[f] = Missing) =>
        /\ last.status = 400
        /\ last.body.kind = "errors"
        /\ \A f \in Fields : last.payload[f] = Missing => f \in last.body.errors
        /\ rows = last.before

C2_Witness ==
    /\ last.op = "POST"
    /\ last.payload.username \in Usernames
    /\ last.payload.email = Missing
    /\ last.status = 400
    /\ rows # {}

\* C3: a PUT with a valid payload on an existing id answers 200, leaves that
\* row with the submitted username and email and its id, leaves every other
\* row alone, and a GET of the id then returns the new values.
C3_UpdateValid ==
    (last.op = "PUT" /\ Found(last.before, last.id) /\ Valid(last.payload)) =>
        LET new == Row(last.id, last.payload)
            old == Get(last.before, last.id)
            get == get_user(rows, nextId, last.id)
        IN /\ last.status = 200
           /\ last.body = UserBody(new)
           /\ rows = (last.before \ {old}) \cup {new}
           /\ Cardinality(rows) = Cardinality(last.before)
           /\ get.status = 200
           /\ get.body.user = new

C3_Witness ==
    /\ last.op = "PUT"
    /\ last.status = 200
    /\ Cardinality(rows) >= 2
    /\ \E old \in last.before :
          /\ old.id = last.id
          /\ old.username # last.payload.username
          /\ old.email # last.payload.email

\* C4: a DELETE of an existing id answers 204 with an empty body and removes
\* exactly that row, a GET of the id then returns 404, and an id that has no
\* row gets one again only by a POST that answers 201 with that id.
C4_AfterDelete ==
    (last.op = "DELETE" /\ Found(last.before, last.id)) =>
        /\ last.status = 204
        /\ last.body = EmptyBody
        /\ rows = last.before \ {Get(last.before, last.id)}
        /\ Cardinality(rows) + 1 = Cardinality(last.before)
        /\ get_user(rows, nextId, last.id).status = 404

C4_OnlyPostCreates ==
    \A id \in UserIds :
        (~Found(rows, id) /\ Found(rows', id)) =>
            /\ last'.op = "POST"
            /\ last'.status = 201
            /\ last'.body.user.id = id

C4_Delete == [](C4_AfterDelete) /\ [][C4_OnlyPostCreates]_vars

C4_Witness ==
    /\ last.op = "DELETE"
    /\ last.status = 204
    /\ Cardinality(rows) = 2

\* C5: a GET of an id answers 200 with the username and email most recently
\* written for it when it has a row and 404 when it has none, and leaves the
\* table as it was.
C5_GetUser ==
    last.op = "GET" =>
        /\ rows = last.before
        /\ IF Found(last.before, last.id)
           THEN /\ last.status = 200
                /\ last.body = UserBody(Row(last.id, written[last.id]))
           ELSE /\ last.status = 404
                /\ last.body = NotFoundBody

C5_Witness ==
    /\ last.op = "GET"
    /\ last.status = 200
    /\ last.id = 2
    /\ Cardinality(rows) = 3

\* C6 as stated: a PUT whose payload lacks a field answers 400 with the error
\* map whether or not the id has a row, and 404 is only answered to a payload
\* that passed validation.
C6_ValidatesFirst ==
    last.op = "PUT" =>
        /\ (\E f \in Fields : last.payload[f] = Missing) =>
              (last.status = 400 /\ last.body.kind = "errors")
        /\ last.status = 404 => Valid(last.payload)

\* C6 amended: a PUT loads the row before it validates: it answers 404 to an
\* id with no row whatever the payload, and 400 with the error map only to
\* an invalid payload for an id that has a row.
C6_LoadsFirst ==
    last.op = "PUT" =>
        /\ ~Found(last.before, last.id) =>
              (last.status = 404 /\ last.body = NotFoundBody)
        /\ (Found(last.before, last.id) /\ ~Valid(last.payload)) =>
              /\ last.status = 400
              /\ last.body = ErrorsBody(LoadErrors(last.payload))
        /\ last.status = 400 => Found(last.before, last.id)

C6_Witness ==
    /\ last.op = "PUT"
    /\ last.payload.email = Missing
    /\ ~Found(last.before, last.id)
    /\ last.before # {}
    /\ last.status = 404

\* C7: every row of the table has a username and an email that are strings,
\* neither absent nor null, whatever requests were served.
C7_NonNull ==
    \A r \in rows : r.username \in Usernames /\ r.email \in Emails

C7_Witness ==
    /\ last.op = "PUT"
    /\ last.payload.username = Null
    /\ Found(last.before, last.id)
    /\ last.status = 400

\* C8: under concurrently served requests no two rows share an id, and a
\* step changes the set of ids only by an INSERT adding one row under an id
\* no row has, or by a DELETE removing the rows of one id; an UPDATE never
\* changes it.
UniqueIds == \A r \in rows, q \in rows : r.id = q.id => r = q

C8_IdsStep ==
    \/ Ids(rows') = Ids(rows)
    \/ /\ \E w \in Workers : inflight'[w].pc = "post_dump"
       /\ rows \subseteq rows'
       /\ Cardinality(rows') = Cardinality(rows) + 1
       /\ Cardinality(Ids(rows')) = Cardinality(Ids(rows)) + 1
    \/ /\ last'.op = "DELETE"
       /\ rows' \subseteq rows
       /\ Cardinality(Ids(rows)) = Cardinality(Ids(rows')) + 1

C8_Ids == [](UniqueIds) /\ [][C8_IdsStep]_vars

C8_Witness ==
    /\ inflight["t1"].pc = "put_commit"
    /\ ~Found(rows, inflight["t1"].user.id)
    /\ inflight["t2"].pc = "post_dump"
    /\ Cardinality(rows) = 2
    /\ last.op = "DELETE"
    /\ last.status = 204

\* C9: GET /users answers 200 with one entry per row of the table and no
\* other, GET /health answers 200 with the fixed payload, and both leave the
\* table as it was.
C9_ReadOnly ==
    /\ last.op = "LIST" =>
          /\ last.status = 200
          /\ last.body.kind = "list"
          /\ Len(last.body.users) = Cardinality(last.before)
          /\ {last.body.users[i] : i \in 1 .. Len(last.body.users)} = last.before
          /\ rows = last.before
    /\ last.op = "HEALTH" =>
          /\ last.status = 200
          /\ last.body.health = [status |-> "healthy", service |-> "microservice-app"]
          /\ rows = last.before

C9_Witness ==
    /\ last.op = "LIST"
    /\ Len(last.body.users) = 3

\* C10: a PUT that answers 400 or 404, and a DELETE of an id with no row,
\* which answers 404, leave the table as it was.
C10_FailedWrite ==
    /\ (last.op = "PUT" /\ last.status \in {400, 404}) => rows = last.before
    /\ (last.op = "DELETE" /\ ~Found(last.before, last.id)) =>
          (last.status = 404 /\ rows = last.before)
    /\ (last.op = "DELETE" /\ last.status = 404) => rows = last.before

C10_Witness ==
    /\ last.op = "PUT"
    /\ last.status = 400
    /\ last.payload.email = Null
    /\ \E r \in last.before :
          /\ r.id = last.id
          /\ last.payload.username \in Usernames \ {r.username}

====
